---- MODULE Spec2Model ----
(***************************************************************************)
(* A model of elftools/common/construct_utils.py: the LEB128 decoders, the *)
(* exclusive repeat combinator, the stream offset marker and the           *)
(* embeddable (flattening) struct.  Each parse is a state machine over a   *)
(* byte stream `data` with cursor `pos`; `pc` is the position of the       *)
(* running call.                                                           *)
(***************************************************************************)
EXTENDS Integers, Sequences, FiniteSets, TLC

VARIABLES
  data,       \* the bytes of the stream
  start,      \* the cursor when the call under study was made
  pos,        \* the stream cursor (stream.tell())
  pc,         \* position of the running call
  err,        \* the exception that ended the call ("" when none)
  obj,        \* the ListContainer a repeat loop accumulates
  ctxIndex,   \* context._index (-1 while unset)
  calls,      \* number of subcon._parsereport invocations made by the loop
  signed,     \* LEB128: TRUE for SLEB128, FALSE for ULEB128
  value,      \* LEB128: the decoded integer returned
  predicate,  \* RepeatUntilExcluding: self.predicate, then the local predicate
  items,      \* RepeatUntilExcluding: the ListContainer returned
  subcons,    \* EmbeddableStruct: self.subcons of the outermost struct
  frames,     \* EmbeddableStruct: the active _parse calls, outermost first
  mapping,    \* EmbeddableStruct: the Container returned by the outermost call
  context,    \* StreamOffset: the context the marker is built in
  marker,     \* StreamOffset: the instance and the name it was declared under
  ret         \* StreamOffset: what the last call did and returned

vars == <<data, start, pos, pc, err, obj, ctxIndex, calls, signed, value, predicate,
          items, subcons, frames, mapping, context, marker, ret>>

loopVars   == <<obj, ctxIndex, calls>>
lebVars    == <<signed, value>>
repVars    == <<predicate, items>>
structVars == <<subcons, frames, mapping>>
offVars    == <<context, marker, ret>>

---------------------------------------------------------------------------
(* Bounds of the model. *)
MaxLen == 3        \* longest enumerated stream
MaxValue == 300    \* integers 0..MaxValue are encoded by the reference encoder
MaxFields == 3     \* most fields declared in an enumerated struct
MaxStart == 1      \* furthest cursor a call is made at

(* Python's None: the name of an unnamed construct, a missing value. *)
None == "None"

SeqUpTo(S, n) == UNION {[1..m -> S] : m \in 0..n}

(* The cursor a call is made at: anywhere up to MaxStart, within the stream. *)
Starts(s) == {p \in 0..MaxStart : p <= Len(s)}

---------------------------------------------------------------------------
(* Python integers are unbounded two's-complement numbers: <<, & and | are *)
(* computed bit by bit, with -1 the all-ones word.                         *)

ShiftLeft(x, n) == x * 2^n

RECURSIVE BitAnd(_, _)
BitAnd(x, y) ==
  IF x = 0 \/ y = 0 THEN 0
  ELSE IF x = -1 THEN y
  ELSE IF y = -1 THEN x
  ELSE 2 * BitAnd(x \div 2, y \div 2) + (IF x % 2 = 1 /\ y % 2 = 1 THEN 1 ELSE 0)

RECURSIVE BitOr(_, _)
BitOr(x, y) ==
  IF x = 0 THEN y
  ELSE IF y = 0 THEN x
  ELSE IF x = -1 \/ y = -1 THEN -1
  ELSE 2 * BitOr(x \div 2, y \div 2) + (IF x % 2 = 1 \/ y % 2 = 1 THEN 1 ELSE 0)

---------------------------------------------------------------------------
(* LEB128: _LEB128_reader, _ULEB128Adapter, _SLEB128Adapter.               *)

(* Bytes the enumerated streams are made of: both sides of the 0x80 and    *)
(* 0x40 bits, and the extremes.                                            *)
LEBBytes == {0, 1, 63, 64, 127, 128, 129, 191, 192, 255}

(* The reference encoder of the round trip: 7 bits a byte, least           *)
(* significant first, 0x80 set on all but the last.                        *)
RECURSIVE RefEncode(_)
RefEncode(n) ==
  IF n < 128 THEN <<n>> ELSE <<(n % 128) + 128>> \o RefEncode(n \div 128)

RoundTripValues == (0..MaxValue) \cup {16383, 16384, 2097151, 2097152, 2147483647}

(* lambda obj, list, ctx: ord(obj) < 0x80 *)
LEB128_terminal_mut(b) == b <= 128
LEB128_terminal(b) == b < 128

(* for b in reversed(obj): value = (value << 7) + (ord(b) & 0x7F) *)
RECURSIVE Accumulate(_, _, _)
Accumulate(run, i, v) ==
  IF i = 0 THEN v
  ELSE Accumulate(run, i - 1, ShiftLeft(v, 7) + BitAnd(run[i], 127))

RECURSIVE AccumulateForward(_, _, _)
AccumulateForward(run, i, v) ==
  IF i > Len(run) THEN v
  ELSE AccumulateForward(run, i + 1, ShiftLeft(v, 7) + BitAnd(run[i], 127))

ULEB128Adapter_decode_mut(run) == AccumulateForward(run, 1, 0)
ULEB128Adapter_decode(run) == Accumulate(run, Len(run), 0)

SLEB128Adapter_decode_mut(run) ==
  LET v == Accumulate(run, Len(run), 0) IN
  IF BitAnd(run[1], 64) # 0
    THEN BitOr(v, - ShiftLeft(1, 7 * Len(run)))
    ELSE v
SLEB128Adapter_decode(run) ==
  LET v == Accumulate(run, Len(run), 0) IN
  IF BitAnd(run[Len(run)], 64) # 0
    THEN BitOr(v, - ShiftLeft(1, 7 * Len(run)))
    ELSE v

LEBInit ==
  /\ data \in SeqUpTo(LEBBytes, MaxLen) \cup {RefEncode(n) : n \in RoundTripValues}
  /\ signed \in BOOLEAN
  /\ start \in Starts(data)
  /\ pos = start /\ pc = "read" /\ err = ""
  /\ obj = <<>> /\ ctxIndex = -1 /\ calls = 0
  /\ value = 0
  /\ predicate = None /\ items = <<>>
  /\ subcons = <<>> /\ frames = <<>> /\ mapping = <<>>
  /\ context = <<>> /\ marker = None /\ ret = None

(* One iteration of the RepeatUntil loop over Bytes(1): set context._index, *)
(* read one byte (StreamError when none is left), append it, and return the *)
(* list when the byte is terminal.                                          *)
LEB128_reader ==
  /\ pc = "read"
  /\ ctxIndex' = Len(obj)
  /\ calls' = calls + 1
  /\ IF pos >= Len(data)
       THEN /\ pc' = "error" /\ err' = "StreamError"
            /\ UNCHANGED <<pos, obj>>
       ELSE /\ pos' = pos + 1
            /\ obj' = Append(obj, data[pos + 1])
            /\ pc' = IF LEB128_terminal(data[pos + 1]) THEN "decode" ELSE "read"
            /\ err' = err
  /\ UNCHANGED <<data, start, lebVars, repVars, structVars, offVars>>

(* Adapter._parse: hand the list the reader returned to _decode. *)
LEB128_decode ==
  /\ pc = "decode"
  /\ value' = IF signed THEN SLEB128Adapter_decode(obj) ELSE ULEB128Adapter_decode(obj)
  /\ pc' = "done"
  /\ UNCHANGED <<data, start, pos, err, loopVars, signed, repVars, structVars, offVars>>

LEBNext == LEB128_reader \/ LEB128_decode

SpecLEB == LEBInit /\ [][LEBNext]_vars

(* The low 7 bits of each byte as base-128 digits, least significant first. *)
RECURSIVE Base128Sum(_, _)
Base128Sum(run, i) ==
  IF i > Len(run) THEN 0
  ELSE (run[i] % 128) * 128^(i - 1) + Base128Sum(run, i + 1)

(* What is left of the stream at the cursor the call was made at. *)
Input == SubSeq(data, start + 1, Len(data))

(* C1 (ULEB128 decoding): a successful unsigned parse returns the sum over *)
(* i of (b[i] & 0x7F) * 128^i of the run it read, and parsing the          *)
(* reference encoding of n returns n.                                      *)
C1_UnsignedDecode ==
  (pc = "done" /\ ~signed) =>
    /\ value = Base128Sum(obj, 1)
    /\ \A n \in RoundTripValues :
         Input = RefEncode(n) => (value = n /\ pos = Len(data))

C1_Witness ==
  /\ pc = "done" /\ ~signed
  /\ Input = <<172, 2>> /\ Input = RefEncode(300) /\ value = 300

(* C2 (SLEB128 decoding): a successful signed parse of a run of k bytes    *)
(* returns u when bit 6 of the last byte is clear and u - 2^(7k) when it   *)
(* is set, u being the unsigned reading; [0x7F] gives -1, [0x3F] gives 63, *)
(* [0xFF, 0x00] gives 127, and a one-byte negative is byte - 128.          *)
C2_SignedDecode ==
  (pc = "done" /\ signed) =>
    LET k == Len(obj)
        u == Base128Sum(obj, 1)
        neg == (obj[k] \div 64) % 2 = 1
    IN /\ value = IF neg THEN u - 2^(7 * k) ELSE u
       /\ (k = 1 /\ neg) => value = obj[1] - 128
       /\ obj = <<127>> => value = -1
       /\ obj = <<63>> => value = 63
       /\ obj = <<255, 0>> => value = 127

C2_Witness ==
  /\ pc = "done" /\ signed
  /\ obj = <<128, 127>> /\ value = -128

NoTerminal(s) == \A i \in 1..Len(s) : s[i] >= 128

(* C6 (byte-run reader): the run handed to the decoder is non-empty, is    *)
(* the stream from the cursor up to and including the first byte below     *)
(* 0x80, read one byte a call, and the cursor has advanced by its length;  *)
(* the read fails with a stream error, and returns nothing, exactly when   *)
(* the stream ends before such a byte.                                     *)
C6_ByteRun ==
  /\ pc \in {"decode", "done"} =>
       /\ Len(obj) >= 1 /\ pos = start + Len(obj)
       /\ obj = SubSeq(data, start + 1, pos)
       /\ obj[Len(obj)] < 128
       /\ \A i \in 1..(Len(obj) - 1) : obj[i] >= 128
       /\ calls = Len(obj) /\ err = ""
  /\ pc = "read" => /\ NoTerminal(obj) /\ obj = SubSeq(data, start + 1, pos)
                    /\ calls = Len(obj)
  /\ pc = "error" => /\ err = "StreamError" /\ NoTerminal(Input) /\ value = 0
                     /\ pos = Len(data)
  /\ NoTerminal(Input) => pc \in {"read", "error"}

C6_Witness ==
  /\ pc = "decode" /\ start = 1 /\ obj = <<129, 1>> /\ Len(data) = 3 /\ pos = 3

---------------------------------------------------------------------------
(* RepeatUntilExcluding.                                                   *)

RepBytes == {0, 1, 2}

(* A predicate handed to the constructor: a callable (named by what it     *)
(* computes) or a constant.                                                *)
Callable(f) == [callable |-> TRUE, fn |-> f, const |-> FALSE]
Constant(c) == [callable |-> FALSE, fn |-> "const", const |-> c]
Predicates ==
  {Callable(f) : f \in {"isZero", "len2", "index1", "sameAsFirst"}}
    \cup {Constant(c) : c \in BOOLEAN}

(* A Python value as far as its truth matters: a bool, or a function       *)
(* object (always true).                                                   *)
Bool(b) == [kind |-> "bool", val |-> b]
FunctionObject == [kind |-> "function", val |-> TRUE]
Truthy(v) == IF v.kind = "bool" THEN v.val ELSE TRUE

(* predicate = lambda _1,_2,_3: predicate -- when the lambda runs, the     *)
(* local name it reads is bound to the lambda itself.                      *)
LambdaResult_mut(p) == Bool(p.const)
LambdaResult(p) == FunctionObject

(* predicate(e, obj, context) *)
CallPredicate(p, e, lst, idx) ==
  IF ~p.callable THEN LambdaResult(p)
  ELSE CASE p.fn = "isZero" -> Bool(e = 0)
         [] p.fn = "len2" -> Bool(Len(lst) = 2)
         [] p.fn = "index1" -> Bool(idx = 1)
         [] p.fn = "sameAsFirst" -> Bool(Len(lst) > 1 /\ lst[1] = e)

(* del obj[-1] *)
DelLast_mut(lst) == lst
DelLast(lst) == SubSeq(lst, 1, Len(lst) - 1)

RepInit ==
  /\ data \in SeqUpTo(RepBytes, MaxLen) \cup {<<1, 2, 3, 0, 9, 9>>}
  /\ predicate \in Predicates
  /\ start \in Starts(data)
  /\ pos = start /\ pc = "loop" /\ err = ""
  /\ obj = <<>> /\ ctxIndex = -1 /\ calls = 0
  /\ items = <<>>
  /\ signed = FALSE /\ value = 0
  /\ subcons = <<>> /\ frames = <<>> /\ mapping = <<>>
  /\ context = <<>> /\ marker = None /\ ret = None

(* One iteration of the loop of _parse, the subcon being Bytes(1).         *)
RepeatUntilExcluding_parse ==
  /\ pc = "loop"
  /\ ctxIndex' = Len(obj)
  /\ calls' = calls + 1
  /\ IF pos >= Len(data)
       THEN /\ pc' = "error" /\ err' = "StreamError"
            /\ UNCHANGED <<pos, obj, items>>
       ELSE LET e == data[pos + 1]
                lst == Append(obj, e)
            IN /\ pos' = pos + 1
               /\ err' = err
               /\ IF Truthy(CallPredicate(predicate, e, lst, Len(obj)))
                    THEN /\ obj' = DelLast(lst)
                         /\ items' = DelLast(lst)
                         /\ pc' = "done"
                    ELSE /\ obj' = lst
                         /\ pc' = "loop"
                         /\ items' = items
  /\ UNCHANGED <<data, start, predicate, lebVars, structVars, offVars>>

RepNext == RepeatUntilExcluding_parse

SpecRepeat == RepInit /\ [][RepNext]_vars

(* Whether the predicate is true of the t-th element of the input, given   *)
(* the t elements parsed so far and the index t - 1.                       *)
HoldsAt(t) ==
  CASE predicate.fn = "isZero" -> Input[t] = 0
    [] predicate.fn = "len2" -> t = 2
    [] predicate.fn = "index1" -> t - 1 = 1
    [] predicate.fn = "sameAsFirst" -> t > 1 /\ Input[1] = Input[t]

(* C3 (exclusive repeat): with a callable predicate the loop stops at the  *)
(* first element for which the predicate, given the element, the sequence  *)
(* accumulated so far and the index, is true; it returns the elements      *)
(* before it, in order, and the cursor is right after it.                  *)
C3_ExclusiveRepeat ==
  predicate.callable =>
    LET n == pos - start IN
    /\ pc = "done" =>
         /\ n \in 1..Len(Input) /\ HoldsAt(n)
         /\ \A s \in 1..(n - 1) : ~HoldsAt(s)
         /\ items = SubSeq(Input, 1, n - 1)
         /\ calls = n
         /\ (Input = <<1, 2, 3, 0, 9, 9>> /\ predicate.fn = "isZero")
              => (items = <<1, 2, 3>> /\ n = 4)
    /\ pc = "loop" => \A s \in 1..n : ~HoldsAt(s)

C3_Witness ==
  /\ pc = "done" /\ predicate = Callable("isZero")
  /\ data = <<1, 2, 3, 0, 9, 9>> /\ start = 0 /\ items = <<1, 2, 3>> /\ pos = 4

(* C10 (non-callable predicate): whatever the constant, the inner parser   *)
(* is invoked once; if it succeeds the parse returns the empty sequence.   *)
C10_ConstantPredicate ==
  ~predicate.callable =>
    /\ calls <= 1
    /\ (calls = 1 /\ pc # "error") =>
         (pc = "done" /\ items = <<>> /\ pos = start + 1)
    /\ pc = "done" => calls = 1
    /\ pc = "error" => Input = <<>>

C10_Witness ==
  /\ pc = "done" /\ predicate = Constant(FALSE)
  /\ Len(data) = 3 /\ items = <<>> /\ calls = 1

---------------------------------------------------------------------------
(* EmbeddableStruct and Embed.                                             *)

StructBytes == {0, 1}

(* Containers are finite maps from keys to values.                         *)
Put(m, k, v) == [x \in DOMAIN m \cup {k} |-> IF x = k THEN v ELSE m[x]]

(* dict.update: the keys of `o` are written over those of `m`. *)
DictUpdate_mut(m, o) ==
  [x \in DOMAIN m \cup DOMAIN o |-> IF x \in DOMAIN m THEN m[x] ELSE o[x]]
DictUpdate(m, o) ==
  [x \in DOMAIN m \cup DOMAIN o |-> IF x \in DOMAIN o THEN o[x] ELSE m[x]]

(* The subcons a struct is declared with.  "name" / Byte reads one byte;   *)
(* an unnamed Byte reads one and contributes nothing; StopIf(this.key ==   *)
(* 0), or StopIf(this._.key == 0) when `up`, raises StopFieldError when    *)
(* the condition holds and reads nothing; Embed(EmbeddableStruct(sub))     *)
(* defers to the struct it wraps and has no name of its own.               *)
Byte(n) == [name |-> n, kind |-> "Byte", key |-> None, up |-> FALSE, sub |-> <<>>]
StopIf(k, u) == [name |-> None, kind |-> "StopIf", key |-> k, up |-> u, sub |-> <<>>]
Embed(s) == [name |-> None, kind |-> "Embed", key |-> None, up |-> FALSE, sub |-> s]

Embedded ==
  { <<Byte("b")>>,
    <<StopIf("b", TRUE), Byte("a"), Byte("b")>>,
    <<Byte("a"), StopIf("a", FALSE), Byte("b")>> }

Subcons ==
  {Byte("a"), Byte("b"), Byte(None), StopIf("b", FALSE)}
    \cup {Embed(s) : s \in Embedded}

(* The structs of the documentation: [a, Embed(b, c), d] and a struct      *)
(* whose third of five subcons stops it after two of four fields.          *)
FlatExample == <<Byte("a"), Embed(<<Byte("b"), Byte("c")>>), Byte("d")>>
StopExample == <<Byte("a"), Byte("b"), StopIf("b", FALSE), Byte("c"), Byte("d")>>

(* context._root = context._.get("_root", context): the context parse()    *)
(* creates (depth 0) has no _root and no _index.                           *)
NewContext(callerDepth) ==
  [up |-> callerDepth,
   root |-> IF callerDepth = 0 THEN 1 ELSE frames[callerDepth].ctx.root,
   index |-> IF callerDepth = 0 THEN -1 ELSE frames[callerDepth].ctx.index,
   vars |-> <<>>]
(* A running _parse: its subcons, the position k of the loop, obj, the     *)
(* context it created, a log of the subcons it has invoked and the cursor  *)
(* it was entered at.                                                      *)
NewFrame(scs, callerDepth) ==
  [subcons |-> scs, k |-> 1,
   obj |-> ("_io" :> "stream"),
   ctx |-> NewContext(callerDepth),
   log |-> <<>>, start |-> pos]

(* A log entry: the subcon invoked, whether it returned ("ok") or raised   *)
(* StopFieldError ("stop"), the value it returned (-1 for None), for an    *)
(* Embed the Container returned and the log of the struct that made it,    *)
(* and the cursor it left.                                                 *)
Entry(sc, outcome, v, sub, sublog) ==
  [name |-> sc.name, kind |-> sc.kind, outcome |-> outcome,
   value |-> v, sub |-> sub, sublog |-> sublog, end |-> pos']

Logged(f, e) == [f EXCEPT !.log = Append(f.log, e)]

(* obj[sc.name] = subobj; context[sc.name] = subobj *)
NamedStore_mut(f, name, v) ==
  [f EXCEPT !.obj = Put(f.obj, name, v), !.k = f.k + 1]
NamedStore(f, name, v) ==
  [f EXCEPT !.obj = Put(f.obj, name, v),
            !.ctx.vars = Put(f.ctx.vars, name, v),
            !.k = f.k + 1]

(* elif subobj and isinstance(sc, Embed): obj.update(subobj) *)
EmbedMerge_mut(f, subobj) ==
  [f EXCEPT !.obj = DictUpdate(f.obj, subobj),
            !.ctx.vars = DictUpdate(f.ctx.vars,
                           [x \in DOMAIN subobj \ {"_io"} |-> subobj[x]]),
            !.k = f.k + 1]
EmbedMerge(f, subobj) ==
  IF DOMAIN subobj # {}
    THEN [f EXCEPT !.obj = DictUpdate(f.obj, subobj), !.k = f.k + 1]
    ELSE [f EXCEPT !.k = f.k + 1]

(* except StopFieldError: break *)
StopField_mut(f) == [f EXCEPT !.k = f.k + 1]
StopField(f) == [f EXCEPT !.k = Len(f.subcons) + 1]

Top == frames[Len(frames)]
Current == Top.subcons[Top.k]
Running == pc = "fields" /\ Top.k <= Len(Top.subcons)

StructInit ==
  /\ \/ /\ subcons \in SeqUpTo(Subcons, MaxFields)
        /\ data \in SeqUpTo(StructBytes, MaxLen)
        /\ start \in Starts(data)
     \/ /\ subcons = FlatExample
        /\ data = <<1, 2, 3, 4>>
        /\ start = 0
     \/ /\ subcons = StopExample
        /\ data \in {<<1, 0, 3, 4>>, <<1, 2, 3, 4>>}
        /\ start = 0
  /\ pos = start /\ pc = "call" /\ err = ""
  /\ frames = <<>> /\ mapping = <<>>
  /\ obj = <<>> /\ ctxIndex = -1 /\ calls = 0
  /\ signed = FALSE /\ value = 0
  /\ predicate = None /\ items = <<>>
  /\ context = <<>> /\ marker = None /\ ret = None

structFrame == <<data, start, err, subcons, mapping, loopVars, lebVars, repVars, offVars>>

(* The outermost _parse is entered: obj and the context are created.       *)
EmbeddableStruct_parse ==
  /\ pc = "call"
  /\ frames' = <<NewFrame(subcons, 0)>>
  /\ pc' = "fields"
  /\ UNCHANGED <<pos, structFrame>>

(* sc._parsereport of a Byte, then the store under its name if it has one. *)
ParseByte ==
  /\ Running /\ Current.kind = "Byte"
  /\ IF pos >= Len(data)
       THEN /\ pc' = "error" /\ err' = "StreamError"
            /\ UNCHANGED <<pos, frames>>
       ELSE LET d == Len(frames)
                sc == Current
                v == data[pos + 1]
                f == Logged(Top, Entry(sc, "ok", v, <<>>, <<>>))
            IN /\ pos' = pos + 1
               /\ frames' = [frames EXCEPT ![d] =
                    IF sc.name # None THEN NamedStore(f, sc.name, v)
                                      ELSE [f EXCEPT !.k = f.k + 1]]
               /\ UNCHANGED <<pc, err>>
  /\ UNCHANGED <<data, start, subcons, mapping, loopVars, lebVars, repVars, offVars>>

(* sc._parsereport of a StopIf: the lookup fails with KeyError when the    *)
(* context has no such key; StopFieldError ends the loop of this struct.   *)
ParseStopIf ==
  /\ Running /\ Current.kind = "StopIf"
  /\ LET d == Len(frames)
         sc == Current
         t == IF sc.up THEN Top.ctx.up ELSE d
         seen == IF t = 0 THEN <<>> ELSE frames[t].ctx.vars
     IN IF sc.key \notin DOMAIN seen
          THEN /\ pc' = "error" /\ err' = "KeyError"
               /\ UNCHANGED <<pos, frames>>
          ELSE /\ pos' = pos
               /\ frames' = [frames EXCEPT ![d] =
                    IF seen[sc.key] = 0
                      THEN StopField(Logged(Top, Entry(sc, "stop", -1, <<>>, <<>>)))
                      ELSE LET f == Logged(Top, Entry(sc, "ok", -1, <<>>, <<>>))
                           IN [f EXCEPT !.k = f.k + 1]]
               /\ UNCHANGED <<pc, err>>
  /\ UNCHANGED <<data, start, subcons, mapping, loopVars, lebVars, repVars, offVars>>

(* sc._parsereport of an Embed: the wrapped struct's _parse is entered     *)
(* with the context of the struct that holds the Embed.                    *)
ParseEmbed ==
  /\ Running /\ Current.kind = "Embed"
  /\ frames' = Append(frames, NewFrame(Current.sub, Len(frames)))
  /\ UNCHANGED <<pos, pc, structFrame>>

(* return obj: to the caller of the outermost struct (whose frame is kept  *)
(* for its log), or to the struct that holds the Embed, which merges it.   *)
Return ==
  /\ pc = "fields" /\ Top.k > Len(Top.subcons)
  /\ pos' = pos
  /\ IF Len(frames) = 1
       THEN /\ mapping' = Top.obj
            /\ pc' = "done"
            /\ frames' = frames
       ELSE LET d == Len(frames) - 1
                f == Logged(frames[d], Entry(frames[d].subcons[frames[d].k],
                                             "ok", -1, Top.obj, Top.log))
            IN /\ frames' = [SubSeq(frames, 1, d) EXCEPT ![d] = EmbedMerge(f, Top.obj)]
               /\ UNCHANGED <<mapping, pc>>
  /\ UNCHANGED <<data, start, err, subcons, loopVars, lebVars, repVars, offVars>>

StructNext ==
  \/ EmbeddableStruct_parse
  \/ ParseByte
  \/ ParseStopIf
  \/ ParseEmbed
  \/ Return

SpecStruct == StructInit /\ [][StructNext]_vars

Names == {"a", "b", "c", "d"}
FieldKeys(m) == DOMAIN m \ {"_io"}

(* What a logged subcon contributes to the Container of its struct.        *)
Writes(e, x) ==
  /\ e.outcome = "ok"
  /\ \/ e.name = x
     \/ e.name = None /\ e.kind = "Embed" /\ x \in DOMAIN e.sub
Written(e, x) == IF e.name = x THEN e.value ELSE e.sub[x]

(* `m` is the flat mapping of the first n entries of `log`: its keys are   *)
(* those written, each with the value of its last writer.                  *)
FlatOf(m, log, n) ==
  /\ FieldKeys(m) = {x \in Names : \E j \in 1..n : Writes(log[j], x)}
  /\ \A x \in FieldKeys(m) : \A j \in 1..n :
       (Writes(log[j], x) /\ \A i \in (j + 1)..n : ~Writes(log[i], x))
         => m[x] = Written(log[j], x)

(* The log follows the declaration: entry j is subcon j, a Byte returned   *)
(* the byte before the cursor it left.                                     *)
InOrder(scs, log) ==
  /\ Len(log) <= Len(scs)
  /\ \A j \in 1..Len(log) :
       /\ log[j].name = scs[j].name /\ log[j].kind = scs[j].kind
       /\ log[j].kind = "Byte" => log[j].value = data[log[j].end]

(* C4 (flattening): the Container of every struct is the flat mapping of   *)
(* the subcons parsed so far, in declaration order, the later write        *)
(* winning; so is every Container an Embed returned, and the Container     *)
(* the parse returns.                                                      *)
C4_Flattening ==
  /\ \A d \in 1..Len(frames) :
       LET f == frames[d] IN
       /\ InOrder(f.subcons, f.log)
       /\ FlatOf(f.obj, f.log, Len(f.log))
       /\ \A j \in 1..Len(f.log) :
            f.log[j].kind = "Embed" =>
              /\ InOrder(f.subcons[j].sub, f.log[j].sublog)
              /\ FlatOf(f.log[j].sub, f.log[j].sublog, Len(f.log[j].sublog))
  /\ pc = "done" =>
       /\ mapping = frames[1].obj
       /\ (subcons = FlatExample =>
             /\ FieldKeys(mapping) = {"a", "b", "c", "d"}
             /\ mapping["a"] = 1 /\ mapping["b"] = 2
             /\ mapping["c"] = 3 /\ mapping["d"] = 4)

C4_Witness ==
  /\ pc = "done"
  /\ subcons = <<Byte("a"), Byte("b"), Embed(<<Byte("b")>>)>>
  /\ data = <<0, 0, 1>> /\ start = 0
  /\ FieldKeys(mapping) = {"a", "b"} /\ mapping["a"] = 0 /\ mapping["b"] = 1

(* C5 (stop signal): once subcon k of a struct has raised StopFieldError,  *)
(* no later subcon of it is invoked, no error is raised, the Container     *)
(* holds what the subcons before k wrote, and the cursor is where subcon   *)
(* k - 1 left it; the outermost struct then returns that Container.        *)
C5_StopSignal ==
  /\ \A d \in 1..Len(frames) :
       LET f == frames[d] IN
       \A k \in 1..Len(f.log) :
         f.log[k].outcome = "stop" =>
           /\ k = Len(f.log) /\ d = Len(frames)
           /\ f.k > Len(f.subcons)
           /\ pc \in {"fields", "done"} /\ err = ""
           /\ FlatOf(f.obj, f.log, k - 1)
           /\ pos = IF k = 1 THEN f.start ELSE f.log[k - 1].end
           /\ pc = "done" => mapping = f.obj
  /\ (pc = "done" /\ subcons = StopExample /\ data = <<1, 0, 3, 4>>) =>
       /\ FieldKeys(mapping) = {"a", "b"}
       /\ mapping["a"] = 1 /\ mapping["b"] = 0
       /\ pos = 2

C5_Witness ==
  /\ pc = "done" /\ subcons = StopExample /\ data = <<1, 0, 3, 4>>
  /\ Len(frames[1].log) = 3 /\ frames[1].log[3].outcome = "stop"
  /\ pos = 2 /\ FieldKeys(mapping) = {"a", "b"}

(* C8 (context of a field): when subcon k of a struct is about to be       *)
(* invoked, the subcons before it are the ones logged, the context holds   *)
(* under each of their names the value the last of them returned, and the  *)
(* context's _ is the context the struct was entered with.                 *)
C8_ContextOfField ==
  \A d \in 1..Len(frames) :
    LET f == frames[d] IN
    /\ f.ctx.up = d - 1
    /\ (d = Len(frames) /\ Running) => Len(f.log) = f.k - 1
    /\ InOrder(f.subcons, f.log)
    /\ \A j \in 1..Len(f.log) :
         (f.log[j].name # None
            /\ \A i \in (j + 1)..Len(f.log) : f.log[i].name # f.log[j].name)
           => /\ f.log[j].name \in DOMAIN f.ctx.vars
              /\ f.ctx.vars[f.log[j].name] = f.log[j].value

C8_Witness ==
  /\ Running /\ Len(frames) = 1 /\ Top.k = 3
  /\ Top.subcons[1].name = "a" /\ Top.subcons[2].name = "a"
  /\ Top.log[1].value = 0 /\ Top.log[2].value = 1
  /\ Top.ctx.vars["a"] = 1 /\ Top.ctx.up = 0

(* The names of the subcons a struct has parsed itself.                    *)
OwnNames(f) == {f.log[j].name : j \in 1..Len(f.log)} \ {None}

(* C9 (embedded keys stay out of the context): the names in the context    *)
(* of a struct are exactly the names of its own named subcons parsed so    *)
(* far; a key only an Embed contributed is in the Container and not in     *)
(* the context, and a sibling's lookup of it fails.                        *)

C9_EmbedNotInContext ==
  /\ \A d \in 1..Len(frames) : DOMAIN frames[d].ctx.vars = OwnNames(frames[d])
  /\ (pc = "error" /\ err = "KeyError" /\ ~Current.up) =>
       Current.key \notin OwnNames(Top)

C9_Witness ==
  /\ pc = "error" /\ err = "KeyError" /\ Len(frames) = 1
  /\ Current.kind = "StopIf" /\ ~Current.up
  /\ Len(Top.log) >= 1 /\ Top.log[Len(Top.log)].kind = "Embed"
  /\ Current.key \in DOMAIN Top.obj
  /\ Current.key \notin DOMAIN Top.ctx.vars

---------------------------------------------------------------------------
(* StreamOffset.                                                           *)

(* __init__(self) takes no name and calls Construct.__init__(self), which  *)
(* leaves self.name = None.                                                *)
StreamOffset_init == None

(* The only way to give the marker a field name is the rename operator,    *)
(* "item_offset" / StreamOffset(), whose wrapper carries the name and      *)
(* passes _parse, _build and _sizeof through to the marker.                *)
FieldNames == {"item_offset", "start"}

NoCall == [op |-> "none", value |-> -1]

OffInit ==
  /\ marker \in {[name |-> StreamOffset_init, declared |-> n] : n \in FieldNames}
  /\ data = <<>> /\ start = 0 /\ pos = 0 /\ pc = "idle" /\ err = ""
  /\ context = <<>> /\ ret = NoCall
  /\ obj = <<>> /\ ctxIndex = -1 /\ calls = 0
  /\ signed = FALSE /\ value = 0
  /\ predicate = None /\ items = <<>>
  /\ subcons = <<>> /\ frames = <<>> /\ mapping = <<>>

offFrame == <<start, pc, err, marker, loopVars, lebVars, repVars, structVars>>

(* Another construct of the schema writes one byte: the position moves on. *)
StreamWrite ==
  /\ Len(data) < MaxLen
  /\ \E b \in StructBytes : data' = Append(data, b)
  /\ pos' = pos + 1
  /\ ret' = [op |-> "write", value |-> -1]
  /\ UNCHANGED <<context, offFrame>>

(* return stream.tell() *)
StreamOffset_parse ==
  /\ ret' = [op |-> "parse", value |-> pos]
  /\ UNCHANGED <<data, pos, context, offFrame>>

(* context[self.name] = stream.tell(); returns None *)
StreamOffset_build ==
  /\ context' = Put(context, marker.name, pos)
  /\ ret' = [op |-> "build", value |-> -1]
  /\ UNCHANGED <<data, pos, offFrame>>

(* return 0 *)
StreamOffset_sizeof ==
  /\ ret' = [op |-> "sizeof", value |-> 0]
  /\ UNCHANGED <<data, pos, context, offFrame>>

OffNext ==
  \/ StreamWrite
  \/ StreamOffset_parse
  \/ StreamOffset_build
  \/ StreamOffset_sizeof

SpecOffset == OffInit /\ [][OffNext]_vars

(* C7 (marker build): right after a marker declared under a field name is  *)
(* built, the context holds the current output position under that name.   *)
C7_BuildRecordsUnderName ==
  ret.op = "build" =>
    /\ marker.declared \in DOMAIN context
    /\ context[marker.declared] = pos

====
